---- MODULE Spec2Model ----
(***************************************************************************)
(* A model of the chippy CHIP-8 interpreter (package main, type Game).     *)
(* The machine state is the record g; one Cycle step is one iteration of   *)
(* the loop in cycles (fetch, decode, dispatch to an op_* handler), and    *)
(* Tick is the rest of Update: the timer update and the return of the      *)
(* error to ebiten.RunGame.                                                *)
(***************************************************************************)
EXTENDS Integers, Naturals, Sequences, FiniteSets, TLC

VARIABLES
    g,       \* the Game: mem, v, i, pc, sp, stack, dt, st, pixels, disp, isKeyPressed, pressed
    err,     \* the error cycles has returned to Update ("nil" while the batch runs)
    cnt,     \* iterations of the loop in cycles completed in the current Update
    frame,   \* Update calls completed
    status,  \* "running", "exited" (RunGame returned the error) or "crashed" (runtime panic)
    last,    \* the instruction most recently dispatched: opcode, handler, arguments, error
    prev,    \* g and last as they were before the most recent Cycle step
    upd      \* the current Update call: g when it began, the key samples taken and the
             \* addresses fetched by its iterations so far

vars == <<g, err, cnt, frame, status, last, prev, upd>>

\* ------------------------------------------------------------------ constants
DispWidth == 64
DispHeight == 32
MaxMem == 4096
FontSetSize == 80
MaxRegs == 16
MaxStack == 48
DefaultStart == 512
PerFrame == 20
TimerReset == 60
RandN == 255

\* ------------------------------------------------------------------ bounds
MaxFrames == 3       \* Update calls the host makes before it stops calling
MaxX == 1            \* single-instruction programs have their x nibble in 0..MaxX or 15
MaxKey == 1          \* the keys sampled are 0..MaxKey and 15 (and no key)
MaxOperand == 1      \* register operands of add and subtract: 0..MaxOperand and 255-MaxOperand..255
MaxDepth == 3        \* calls already on the stack when the call under test runs
MaxGap == 3          \* bytes between the call under test and its target
MaxRows == 2         \* sprite heights 0..MaxRows

\* ------------------------------------------------------------------ integers of fixed width
U8(n) == n % 256
U16(n) == n % 65536

\* bit k of a
Bit(a, k) == (a \div (2 ^ k)) % 2

\* the tables of &, | and ^ for operands below 16
NibAnd ==
    [a \in 0..15 |-> [b \in 0..15 |->
        Bit(a, 0) * Bit(b, 0) + 2 * (Bit(a, 1) * Bit(b, 1))
        + 4 * (Bit(a, 2) * Bit(b, 2)) + 8 * (Bit(a, 3) * Bit(b, 3))] @@ << >>] @@ << >>

NibXor ==
    [a \in 0..15 |-> [b \in 0..15 |->
        ((Bit(a, 0) + Bit(b, 0)) % 2) + 2 * ((Bit(a, 1) + Bit(b, 1)) % 2)
        + 4 * ((Bit(a, 2) + Bit(b, 2)) % 2) + 8 * ((Bit(a, 3) + Bit(b, 3)) % 2)] @@ << >>] @@ << >>

NibOr == [a \in 0..15 |-> [b \in 0..15 |-> a + b - NibAnd[a][b]] @@ << >>] @@ << >>

\* the operators &, | and ^ of Go on operands of at most 16 bits, a nibble at a time
Nibbles(t, a, b) ==
    t[a % 16][b % 16]
    + 16 * t[(a \div 16) % 16][(b \div 16) % 16]
    + 256 * t[(a \div 256) % 16][(b \div 256) % 16]
    + 4096 * t[(a \div 4096) % 16][(b \div 4096) % 16]

BitAnd(a, b) == Nibbles(NibAnd, a, b)
BitOr(a, b) == Nibbles(NibOr, a, b)
BitXor(a, b) == Nibbles(NibXor, a, b)

RECURSIVE OnesCount8(_)
OnesCount8(b) == IF b = 0 THEN 0 ELSE (b % 2) + OnesCount8(b \div 2)

\* ------------------------------------------------------------------ byte slices
\* A []byte that make() zeroed is kept as the map of its non-zero cells.
Zeroed == << >>

Get(a, k) == IF k \in DOMAIN a THEN a[k] ELSE 0

Put(a, k, b) ==
    IF b = 0 THEN [j \in (DOMAIN a) \ {k} |-> a[j]] @@ Zeroed
    ELSE (k :> b) @@ a

fontset ==
    << 240, 144, 144, 144, 240,
        32,  96,  32,  32, 112,
       240,  16, 240, 128, 240,
       240,  16, 240,  16, 240,
       144, 144, 240,  16,  16,
       240, 128, 240,  16, 240,
       240, 128, 240, 144, 240,
       240,  16,  32,  64,  64,
       240, 144, 240, 144, 240,
       240, 144, 240,  16, 240,
       240, 144, 240, 144, 144,
       224, 144, 224, 144, 224,
       240, 128, 128, 128, 240,
       224, 144, 144, 144, 224,
       240, 128, 240, 128, 240,
       240, 128, 240, 128, 128 >>

\* mem[at + k] = data[k + 1] for every byte of data
CopyAt(mem, at, data) ==
    LET nz == { k \in 1..Len(data) : data[k] # 0 }
    IN [j \in { at + k - 1 : k \in nz } |-> data[j - at + 1]]
       @@ [j \in (DOMAIN mem) \ (at..(at + Len(data) - 1)) |-> mem[j]]

mapFontset(mem) == CopyAt(mem, 0, fontset)

\* load: pc = start, the image is copied byte by byte from start on
load(game, data, start) ==
    [game EXCEPT !.pc = start, !.mem = CopyAt(game.mem, start, data)]

NewGame(data) ==
    load([ mem |-> mapFontset(Zeroed),
           v |-> [r \in 0..(MaxRegs - 1) |-> 0],
           i |-> 0, pc |-> 0, sp |-> 0,
           stack |-> [s \in 0..(MaxStack - 1) |-> 0],
           dt |-> TimerReset, st |-> TimerReset,
           pixels |-> Zeroed, disp |-> Zeroed,
           isKeyPressed |-> FALSE, pressed |-> 0 ],
         data, DefaultStart)

\* ------------------------------------------------------------------ results of a handler
ErrNil == "nil"
ErrStackIsFull == "stack is full"
ErrStackIsEmpty == "stack is empty"
ErrNotValidInstruction == "not a valid instruction"
Panic == "panic: index out of range"    \* a Go runtime panic: the process dies

Ok(s) == [g |-> s, err |-> ErrNil]
Fail(s, e) == [g |-> s, err |-> e]

InMem(a) == a < MaxMem

\* ------------------------------------------------------------------ input
NoKey == 16
Keys == 0..15
KeySample == { k \in Keys : k <= MaxKey \/ k = 15 } \cup {NoKey}    \* the hex value of the first mapped key held down, or none
RandSample == {0, 1, 85, 170, RandN - 1}    \* values of rand.UintN(255), which lie in 0..254

getKey(s, key) ==
    IF key \in Keys
    THEN [s EXCEPT !.isKeyPressed = TRUE, !.pressed = key]
    ELSE [s EXCEPT !.isKeyPressed = FALSE]

\* bcd with the difference taken in a signed int: below zero it divides to 0
bcd_SignedDifference(num, place) ==
    LET diff == (num % U8(place * 10)) - (num % place)
    IN IF diff < 0 THEN 0 ELSE diff \div place

bcd(num, place) ==
    U8(U8(num % U8(place * 10)) - (num % place)) \div place

\* ------------------------------------------------------------------ instruction handlers
RECURSIVE fx65_loop(_, _, _)
fx65_loop(s, x, k) ==
    IF k > x THEN Ok(s)
    ELSE IF ~InMem(U16(s.i + k)) THEN Fail(s, Panic)
    ELSE fx65_loop([s EXCEPT !.v[k] = Get(s.mem, U16(s.i + k))], x, k + 1)

op_fx65(s, x) == fx65_loop(s, x, 0)

RECURSIVE fx55_loop(_, _, _, _)
fx55_loop(s, x, i, j) ==
    IF j > x THEN Ok(s)
    ELSE IF ~InMem(i) THEN Fail(s, Panic)
    ELSE fx55_loop([s EXCEPT !.mem = Put(s.mem, i, s.v[j])], x, U16(i + 1), j + 1)

\* op_fx55 leaving I past the cells it wrote, as the original interpreter did
op_fx55_AdvancesI(s, x) ==
    LET r == fx55_loop(s, x, s.i, 0)
    IN IF r.err = ErrNil THEN Ok([r.g EXCEPT !.i = U16(s.i + x + 1)]) ELSE r

op_fx55(s, x) == fx55_loop(s, x, s.i, 0)

op_fx33(s, x) ==
    IF ~InMem(s.i) THEN Fail(s, Panic)
    ELSE LET s1 == [s EXCEPT !.mem = Put(s.mem, s.i, bcd(s.v[x], 100))]
         IN IF ~InMem(U16(s.i + 1)) THEN Fail(s1, Panic)
            ELSE LET s2 == [s1 EXCEPT !.mem = Put(s1.mem, U16(s.i + 1), bcd(s.v[x], 10))]
                 IN IF ~InMem(U16(s.i + 2)) THEN Fail(s2, Panic)
                    ELSE Ok([s2 EXCEPT !.mem = Put(s2.mem, U16(s.i + 2), bcd(s.v[x], 1))])

op_fx29(s, x) == Ok([s EXCEPT !.i = s.v[x]])

op_fx1e(s, x) == Ok([s EXCEPT !.i = U16(s.i + s.v[x])])

op_fx18(s, x) == Ok([s EXCEPT !.st = s.v[x]])

op_fx15(s, x) == Ok([s EXCEPT !.dt = s.v[x]])

\* op_fx0a without the rewind: with no key down the instruction is dropped
op_fx0a_NoRewind(s, x, key) ==
    LET k == getKey(s, key)
    IN IF ~k.isKeyPressed
       THEN Ok(k)
       ELSE Ok([k EXCEPT !.v[x] = k.pressed])

\* op_fx0a rewinding in both branches: the key is stored and the instruction repeated
op_fx0a_RewindsAlways(s, x, key) ==
    LET k == getKey(s, key)
    IN IF ~k.isKeyPressed
       THEN Ok([k EXCEPT !.pc = U16(k.pc - 2)])
       ELSE Ok([k EXCEPT !.v[x] = k.pressed, !.pc = U16(k.pc - 2)])

op_fx0a(s, x, key) ==
    LET k == getKey(s, key)
    IN IF ~k.isKeyPressed
       THEN Ok([k EXCEPT !.pc = U16(k.pc - 2)])
       ELSE Ok([k EXCEPT !.v[x] = k.pressed])

op_fx07(s, x) == Ok([s EXCEPT !.v[x] = s.dt])

op_exa1(s, x, key) ==
    LET k == getKey(s, key)
    IN IF ~k.isKeyPressed \/ (k.isKeyPressed /\ k.pressed # k.v[x])
       THEN Ok([k EXCEPT !.pc = U16(k.pc + 2)])
       ELSE Ok(k)

op_ex9e(s, x, key) ==
    LET k == getKey(s, key)
    IN IF k.isKeyPressed /\ k.pressed = k.v[x]
       THEN Ok([k EXCEPT !.pc = U16(k.pc + 2)])
       ELSE Ok(k)

\* Toggle without the last of the four bytes
Toggle_ThreeBytes(pixels, coord) ==
    LET p0 == Put(pixels, coord, BitXor(Get(pixels, coord), 255))
        p1 == Put(p0, coord + 1, BitXor(Get(p0, coord + 1), 255))
    IN Put(p1, coord + 2, BitXor(Get(p1, coord + 2), 255))

\* pixels[coord .. coord+3] ^= 0xFF
Toggle(pixels, coord) ==
    LET p0 == Put(pixels, coord, BitXor(Get(pixels, coord), 255))
        p1 == Put(p0, coord + 1, BitXor(Get(p0, coord + 1), 255))
        p2 == Put(p1, coord + 2, BitXor(Get(p1, coord + 2), 255))
    IN Put(p2, coord + 3, BitXor(Get(p2, coord + 3), 255))

\* the inner loop of op_dxyn with the collision test made after the toggle
RECURSIVE dxyn_cols_TestAfterToggle(_, _, _, _, _)
dxyn_cols_TestAfterToggle(s, x, newY, data, xOffset) ==
    IF xOffset >= 8 THEN s
    ELSE IF BitAnd(data, 128 \div (2 ^ xOffset)) # 0
         THEN LET newX == (s.v[x] + xOffset) % DispWidth
                  coord == newY + newX * 4
                  s1 == [s EXCEPT !.pixels = Toggle(s.pixels, coord)]
              IN dxyn_cols_TestAfterToggle(
                     IF Get(s1.pixels, coord) = 255 THEN [s1 EXCEPT !.v[15] = 1] ELSE s1,
                     x, newY, data, xOffset + 1)
         ELSE dxyn_cols_TestAfterToggle(s, x, newY, data, xOffset + 1)

\* the inner loop of op_dxyn: the eight columns of one sprite row
RECURSIVE dxyn_cols(_, _, _, _, _)
dxyn_cols(s, x, newY, data, xOffset) ==
    IF xOffset >= 8 THEN s
    ELSE IF BitAnd(data, 128 \div (2 ^ xOffset)) # 0
         THEN LET newX == (s.v[x] + xOffset) % DispWidth
                  coord == newY + newX * 4
                  s1 == IF Get(s.pixels, coord) = 255 THEN [s EXCEPT !.v[15] = 1] ELSE s
              IN dxyn_cols([s1 EXCEPT !.pixels = Toggle(s1.pixels, coord)],
                           x, newY, data, xOffset + 1)
         ELSE dxyn_cols(s, x, newY, data, xOffset + 1)

\* the outer loop of op_dxyn: the n rows of the sprite
RECURSIVE dxyn_rows(_, _, _, _, _)
dxyn_rows(s, x, y, n, yOffset) ==
    IF yOffset >= n THEN Ok([s EXCEPT !.disp = s.pixels])
    ELSE IF ~InMem(U16(s.i + yOffset)) THEN Fail(s, Panic)
    ELSE LET newY == (s.v[y] + yOffset) % DispHeight
             data == Get(s.mem, U16(s.i + yOffset))
         IN dxyn_rows(dxyn_cols(s, x, newY * (DispWidth * 4), data, 0), x, y, n, yOffset + 1)

op_dxyn(s, x, y, n) == dxyn_rows([s EXCEPT !.v[15] = 0], x, y, n, 0)

op_cxkk(s, x, kk, rnd) == Ok([s EXCEPT !.v[x] = BitAnd(U8(rnd), kk)])

op_bnnn(s, nnn) == Ok([s EXCEPT !.pc = U16(nnn + s.v[0])])

op_annn(s, nnn) == Ok([s EXCEPT !.i = nnn])

op_9xy0(s, x, y) == Ok(IF s.v[x] # s.v[y] THEN [s EXCEPT !.pc = U16(s.pc + 2)] ELSE s)

\* op_8xy6 with the flag taken after the shift instead of before it
op_8xy6_FlagAfterShift(s, x) ==
    LET least == IF OnesCount8(s.v[x] \div 2) > OnesCount8(s.v[x] \div 4) THEN 1 ELSE 0
        s1 == [s EXCEPT !.v[x] = s.v[x] \div 2]
    IN Ok([s1 EXCEPT !.v[15] = least])

\* op_8xy7 with the operands of the subtraction in the order of op_8xy5
op_8xy7_Swapped(s, x, y) ==
    LET diff == s.v[x] - s.v[y]
        borrow == IF s.v[x] < s.v[y] THEN 1 ELSE 0
        s1 == [s EXCEPT !.v[x] = U8(diff)]
    IN Ok([s1 EXCEPT !.v[15] = 1 - borrow])

\* op_8xy4 with the sum taken in 8 bits, so that the carry bit is lost
op_8xy4_ByteSum(s, x, y) ==
    LET sum == U8(s.v[x] + s.v[y])
        s1 == [s EXCEPT !.v[x] = U8(s.v[x] + s.v[y])]
    IN Ok([s1 EXCEPT !.v[15] = BitAnd(sum \div 256, 1)])

op_8xye(s, x) ==
    LET most == IF OnesCount8(s.v[x]) > OnesCount8(U8(s.v[x] * 2)) THEN 1 ELSE 0
        s1 == [s EXCEPT !.v[x] = U8(s.v[x] * 2)]
    IN Ok([s1 EXCEPT !.v[15] = most])

op_8xy7(s, x, y) ==
    LET diff == s.v[y] - s.v[x]
        borrow == IF s.v[y] < s.v[x] THEN 1 ELSE 0
        s1 == [s EXCEPT !.v[x] = U8(diff)]
    IN Ok([s1 EXCEPT !.v[15] = 1 - borrow])

op_8xy6(s, x) ==
    LET least == IF OnesCount8(s.v[x]) > OnesCount8(s.v[x] \div 2) THEN 1 ELSE 0
        s1 == [s EXCEPT !.v[x] = s.v[x] \div 2]
    IN Ok([s1 EXCEPT !.v[15] = least])

op_8xy5(s, x, y) ==
    LET diff == s.v[x] - s.v[y]
        borrow == IF s.v[x] < s.v[y] THEN 1 ELSE 0
        s1 == [s EXCEPT !.v[x] = U8(diff)]
    IN Ok([s1 EXCEPT !.v[15] = 1 - borrow])

op_8xy4(s, x, y) ==
    LET sum == U16(s.v[x] + s.v[y])
        s1 == [s EXCEPT !.v[x] = U8(s.v[x] + s.v[y])]
    IN Ok([s1 EXCEPT !.v[15] = BitAnd(sum \div 256, 1)])

op_8xy3(s, x, y) == Ok([s EXCEPT !.v[x] = BitXor(s.v[x], s.v[y])])

op_8xy2(s, x, y) == Ok([s EXCEPT !.v[x] = BitAnd(s.v[x], s.v[y])])

op_8xy1(s, x, y) == Ok([s EXCEPT !.v[x] = BitOr(s.v[x], s.v[y])])

op_8xy0(s, x, y) == Ok([s EXCEPT !.v[x] = s.v[y]])

op_7xkk(s, x, kk) == Ok([s EXCEPT !.v[x] = U8(s.v[x] + kk)])

op_6xkk(s, x, kk) == Ok([s EXCEPT !.v[x] = kk])

op_5xy0(s, x, y) == Ok(IF s.v[x] = s.v[y] THEN [s EXCEPT !.pc = U16(s.pc + 2)] ELSE s)

op_4xkk(s, x, kk) == Ok(IF s.v[x] # kk THEN [s EXCEPT !.pc = U16(s.pc + 2)] ELSE s)

op_3xkk(s, x, kk) == Ok(IF s.v[x] = kk THEN [s EXCEPT !.pc = U16(s.pc + 2)] ELSE s)

\* op_2nnn pushing the address of the call itself instead of the post-fetch pc
op_2nnn_PushesCallAddress(s, nnn) ==
    IF s.sp >= MaxStack THEN Fail(s, ErrStackIsFull)
    ELSE Ok([s EXCEPT !.stack[s.sp] = U16(s.pc - 2), !.sp = s.sp + 1, !.pc = nnn])

\* op_2nnn with the capacity test off by one
op_2nnn_OffByOne(s, nnn) ==
    IF s.sp > MaxStack THEN Fail(s, ErrStackIsFull)
    ELSE Ok([s EXCEPT !.stack[s.sp] = s.pc, !.sp = s.sp + 1, !.pc = nnn])

op_2nnn(s, nnn) ==
    IF s.sp >= MaxStack THEN Fail(s, ErrStackIsFull)
    ELSE Ok([s EXCEPT !.stack[s.sp] = s.pc, !.sp = s.sp + 1, !.pc = nnn])

\* op_1nnn with the target forced to an even address
op_1nnn_Aligns(s, nnn) == Ok([s EXCEPT !.pc = nnn - (nnn % 2)])

op_1nnn(s, nnn) == Ok([s EXCEPT !.pc = nnn])

\* op_00ee returning without the decrement of sp
op_00ee_KeepsSp(s) ==
    IF s.sp = 0 THEN Fail(s, ErrStackIsEmpty)
    ELSE Ok([s EXCEPT !.pc = s.stack[s.sp - 1]])

op_00ee(s) ==
    IF s.sp = 0 THEN Fail(s, ErrStackIsEmpty)
    ELSE Ok([s EXCEPT !.pc = s.stack[s.sp - 1], !.sp = s.sp - 1])

\* op_00e0 clearing the image shown but not the pixel buffer
op_00e0_ClearsImageOnly(s) == Ok([s EXCEPT !.disp = Zeroed])

op_00e0(s) == Ok([s EXCEPT !.pixels = Zeroed, !.disp = Zeroed])

\* ------------------------------------------------------------------ fetch and decode
\* fetch: the big-endian word at pc, pc += 2
fetch(s) ==
    IF ~InMem(s.pc) \/ ~InMem(U16(s.pc + 1)) THEN Fail(s, Panic)
    ELSE [ g |-> [s EXCEPT !.pc = U16(s.pc + 2)], err |-> ErrNil,
           opcode |-> BitOr(Get(s.mem, s.pc) * 256, Get(s.mem, U16(s.pc + 1))) ]

\* the operand fields cycles extracts from the opcode
Fields(opcode) ==
    [ nnn |-> BitAnd(opcode, \hfff),
      x |-> BitAnd(opcode \div 256, \hf),
      y |-> BitAnd(opcode \div 16, \hf),
      n |-> BitAnd(opcode, \hf),
      kk |-> BitAnd(opcode, \hff) ]

\* the switch with the cases o8xy7 and o8xy6 in the other order
SwitchSwapped ==
    << [mask |-> \hf065, h |-> "op_fx65"], [mask |-> \hf055, h |-> "op_fx55"],
       [mask |-> \hf033, h |-> "op_fx33"], [mask |-> \hf029, h |-> "op_fx29"],
       [mask |-> \hf01e, h |-> "op_fx1e"], [mask |-> \hf018, h |-> "op_fx18"],
       [mask |-> \hf015, h |-> "op_fx15"], [mask |-> \hf00a, h |-> "op_fx0a"],
       [mask |-> \hf007, h |-> "op_fx07"], [mask |-> \he0a1, h |-> "op_exa1"],
       [mask |-> \he09e, h |-> "op_ex9e"], [mask |-> \hd000, h |-> "op_dxyn"],
       [mask |-> \hc000, h |-> "op_cxkk"], [mask |-> \hb000, h |-> "op_bnnn"],
       [mask |-> \ha000, h |-> "op_annn"], [mask |-> \h9000, h |-> "op_9xy0"],
       [mask |-> \h800e, h |-> "op_8xye"], [mask |-> \h8006, h |-> "op_8xy6"],
       [mask |-> \h8007, h |-> "op_8xy7"], [mask |-> \h8005, h |-> "op_8xy5"],
       [mask |-> \h8004, h |-> "op_8xy4"], [mask |-> \h8003, h |-> "op_8xy3"],
       [mask |-> \h8002, h |-> "op_8xy2"], [mask |-> \h8001, h |-> "op_8xy1"],
       [mask |-> \h8000, h |-> "op_8xy0"], [mask |-> \h7000, h |-> "op_7xkk"],
       [mask |-> \h6000, h |-> "op_6xkk"], [mask |-> \h5000, h |-> "op_5xy0"],
       [mask |-> \h4000, h |-> "op_4xkk"], [mask |-> \h3000, h |-> "op_3xkk"],
       [mask |-> \h2000, h |-> "op_2nnn"], [mask |-> \h1000, h |-> "op_1nnn"],
       [mask |-> \h00ee, h |-> "op_00ee"], [mask |-> \h00e0, h |-> "op_00e0"] >>

\* the cases of the switch in cycles, in their order: case k is opcode | mask
Switch ==
    << [mask |-> \hf065, h |-> "op_fx65"], [mask |-> \hf055, h |-> "op_fx55"],
       [mask |-> \hf033, h |-> "op_fx33"], [mask |-> \hf029, h |-> "op_fx29"],
       [mask |-> \hf01e, h |-> "op_fx1e"], [mask |-> \hf018, h |-> "op_fx18"],
       [mask |-> \hf015, h |-> "op_fx15"], [mask |-> \hf00a, h |-> "op_fx0a"],
       [mask |-> \hf007, h |-> "op_fx07"], [mask |-> \he0a1, h |-> "op_exa1"],
       [mask |-> \he09e, h |-> "op_ex9e"], [mask |-> \hd000, h |-> "op_dxyn"],
       [mask |-> \hc000, h |-> "op_cxkk"], [mask |-> \hb000, h |-> "op_bnnn"],
       [mask |-> \ha000, h |-> "op_annn"], [mask |-> \h9000, h |-> "op_9xy0"],
       [mask |-> \h800e, h |-> "op_8xye"], [mask |-> \h8007, h |-> "op_8xy7"],
       [mask |-> \h8006, h |-> "op_8xy6"], [mask |-> \h8005, h |-> "op_8xy5"],
       [mask |-> \h8004, h |-> "op_8xy4"], [mask |-> \h8003, h |-> "op_8xy3"],
       [mask |-> \h8002, h |-> "op_8xy2"], [mask |-> \h8001, h |-> "op_8xy1"],
       [mask |-> \h8000, h |-> "op_8xy0"], [mask |-> \h7000, h |-> "op_7xkk"],
       [mask |-> \h6000, h |-> "op_6xkk"], [mask |-> \h5000, h |-> "op_5xy0"],
       [mask |-> \h4000, h |-> "op_4xkk"], [mask |-> \h3000, h |-> "op_3xkk"],
       [mask |-> \h2000, h |-> "op_2nnn"], [mask |-> \h1000, h |-> "op_1nnn"],
       [mask |-> \h00ee, h |-> "op_00ee"], [mask |-> \h00e0, h |-> "op_00e0"] >>

NoHandler == "default"    \* the default case of the switch: no handler runs

\* a case of the switch is taken when its value, opcode | mask, equals opcode
Matches(opcode, k) == BitOr(opcode, Switch[k].mask) = opcode

\* the first case that matches, as a Go switch chooses it
RECURSIVE FirstCase(_, _)
FirstCase(opcode, k) ==
    IF k > Len(Switch) THEN NoHandler
    ELSE IF Matches(opcode, k) THEN Switch[k].h
    ELSE FirstCase(opcode, k + 1)

Decode(opcode) == FirstCase(opcode, 1)

\* the arguments each case passes to its handler
Args(h, f) ==
    CASE h \in {"op_fx65", "op_fx55", "op_fx33", "op_fx29", "op_fx1e", "op_fx18",
                "op_fx15", "op_fx0a", "op_fx07", "op_exa1", "op_ex9e",
                "op_8xye", "op_8xy6"} -> <<f.x>>
      [] h = "op_dxyn" -> <<f.x, f.y, f.n>>
      [] h \in {"op_cxkk", "op_7xkk", "op_6xkk", "op_4xkk", "op_3xkk"} -> <<f.x, f.kk>>
      [] h \in {"op_bnnn", "op_annn", "op_2nnn", "op_1nnn"} -> <<f.nnn>>
      [] h \in {"op_9xy0", "op_8xy7", "op_8xy5", "op_8xy4", "op_8xy3", "op_8xy2",
                "op_8xy1", "op_8xy0", "op_5xy0"} -> <<f.x, f.y>>
      [] OTHER -> << >>

\* what a handler reads from outside the machine: a key sample, a random number
NoInput == [key |-> NoKey, rnd |-> 0]

\* the handlers that call getKey
Sampling == {"op_fx0a", "op_exa1", "op_ex9e"}

Inputs(h) ==
    IF h \in Sampling THEN [key : KeySample, rnd : {0}]
    ELSE IF h = "op_cxkk" THEN [key : {NoKey}, rnd : RandSample]
    ELSE {NoInput}

Call(h, s, a, inp) ==
    CASE h = "op_fx65" -> op_fx65(s, a[1])
      [] h = "op_fx55" -> op_fx55(s, a[1])
      [] h = "op_fx33" -> op_fx33(s, a[1])
      [] h = "op_fx29" -> op_fx29(s, a[1])
      [] h = "op_fx1e" -> op_fx1e(s, a[1])
      [] h = "op_fx18" -> op_fx18(s, a[1])
      [] h = "op_fx15" -> op_fx15(s, a[1])
      [] h = "op_fx0a" -> op_fx0a(s, a[1], inp.key)
      [] h = "op_fx07" -> op_fx07(s, a[1])
      [] h = "op_exa1" -> op_exa1(s, a[1], inp.key)
      [] h = "op_ex9e" -> op_ex9e(s, a[1], inp.key)
      [] h = "op_dxyn" -> op_dxyn(s, a[1], a[2], a[3])
      [] h = "op_cxkk" -> op_cxkk(s, a[1], a[2], inp.rnd)
      [] h = "op_bnnn" -> op_bnnn(s, a[1])
      [] h = "op_annn" -> op_annn(s, a[1])
      [] h = "op_9xy0" -> op_9xy0(s, a[1], a[2])
      [] h = "op_8xye" -> op_8xye(s, a[1])
      [] h = "op_8xy7" -> op_8xy7(s, a[1], a[2])
      [] h = "op_8xy6" -> op_8xy6(s, a[1])
      [] h = "op_8xy5" -> op_8xy5(s, a[1], a[2])
      [] h = "op_8xy4" -> op_8xy4(s, a[1], a[2])
      [] h = "op_8xy3" -> op_8xy3(s, a[1], a[2])
      [] h = "op_8xy2" -> op_8xy2(s, a[1], a[2])
      [] h = "op_8xy1" -> op_8xy1(s, a[1], a[2])
      [] h = "op_8xy0" -> op_8xy0(s, a[1], a[2])
      [] h = "op_7xkk" -> op_7xkk(s, a[1], a[2])
      [] h = "op_6xkk" -> op_6xkk(s, a[1], a[2])
      [] h = "op_5xy0" -> op_5xy0(s, a[1], a[2])
      [] h = "op_4xkk" -> op_4xkk(s, a[1], a[2])
      [] h = "op_3xkk" -> op_3xkk(s, a[1], a[2])
      [] h = "op_2nnn" -> op_2nnn(s, a[1])
      [] h = "op_1nnn" -> op_1nnn(s, a[1])
      [] h = "op_00ee" -> op_00ee(s)
      [] h = "op_00e0" -> op_00e0(s)
      [] OTHER -> Fail(s, ErrNotValidInstruction)

\* the result of an iteration: the handler's result and what was dispatched
Dispatched(r, opcode, h, a) ==
    [g |-> r.g, err |-> r.err, opcode |-> opcode, h |-> h, args |-> a]

Dispatch(h, s, opcode, a, inp) == Dispatched(Call(h, s, a, inp), opcode, h, a)

\* one iteration of the loop in cycles, from the fetched word f on: h is the case
\* the switch takes for it
cycles(f, h, inp) ==
    IF f.err = Panic
    THEN [g |-> f.g, err |-> Panic, opcode |-> 0, h |-> "none", args |-> << >>]
    ELSE Dispatch(h, f.g, f.opcode, Args(h, Fields(f.opcode)), inp)

\* ------------------------------------------------------------------ the frame loop
NoLast == [opcode |-> 0, h |-> "none", args |-> << >>, err |-> ErrNil, at |-> 0]

Start(data) ==
    /\ g = NewGame(data)
    /\ err = ErrNil
    /\ cnt = 0
    /\ frame = 0
    /\ status = "running"
    /\ last = NoLast
    /\ prev = [g |-> g, last |-> NoLast]
    /\ upd = [g |-> g, keys |-> {}, ats |-> {}]

\* Update, first part: one more iteration of the loop in cycles(20)
Cycle ==
    /\ status = "running"
    /\ err = ErrNil
    /\ cnt < PerFrame
    /\ frame < MaxFrames
    /\ \E f \in {fetch(g)} :
       \E h \in {IF f.err = Panic THEN "none" ELSE Decode(f.opcode)} :
       \E inp \in Inputs(h) :
       \E r \in {cycles(f, h, inp)} :
            /\ g' = r.g
            /\ last' = [opcode |-> r.opcode, h |-> r.h, args |-> r.args,
                        err |-> r.err, at |-> g.pc]
            /\ prev' = [g |-> g, last |-> last]
            /\ cnt' = cnt + 1
            /\ status' = IF r.err = Panic THEN "crashed" ELSE status
            /\ err' = IF r.err = Panic THEN err ELSE r.err
            /\ upd' = [upd EXCEPT !.keys = @ \cup (IF h \in Sampling THEN {inp.key} ELSE {}),
                                  !.ats = @ \cup {g.pc}]
    /\ UNCHANGED frame

\* Tick with a timer that has reached 0 held there
Tick_HoldsAtZero ==
    /\ status = "running"
    /\ err # ErrNil \/ cnt = PerFrame
    /\ g' = [g EXCEPT !.dt = IF g.dt > 0 THEN g.dt - 1 ELSE 0,
                      !.st = IF g.st > 0 THEN g.st - 1 ELSE 0]
    /\ status' = IF err # ErrNil THEN "exited" ELSE status
    /\ cnt' = 0
    /\ frame' = frame + 1
    /\ upd' = [g |-> g', keys |-> {}, ats |-> {}]
    /\ UNCHANGED <<err, last, prev>>

\* Tick with the error of cycles dropped: Update returns nil and the host calls it again
Tick_DropsError ==
    /\ status = "running"
    /\ err # ErrNil \/ cnt = PerFrame
    /\ g' = [g EXCEPT !.dt = IF g.dt > 0 THEN g.dt - 1 ELSE TimerReset,
                      !.st = IF g.st > 0 THEN g.st - 1 ELSE TimerReset]
    /\ status' = status
    /\ err' = ErrNil
    /\ cnt' = 0
    /\ frame' = frame + 1
    /\ upd' = [g |-> g', keys |-> {}, ats |-> {}]
    /\ UNCHANGED <<last, prev>>

\* Update, second part: cycles has returned; the timers move and Update returns err
Tick ==
    /\ status = "running"
    /\ err # ErrNil \/ cnt = PerFrame
    /\ g' = [g EXCEPT !.dt = IF g.dt > 0 THEN g.dt - 1 ELSE TimerReset,
                      !.st = IF g.st > 0 THEN g.st - 1 ELSE TimerReset]
    /\ status' = IF err # ErrNil THEN "exited" ELSE status
    /\ cnt' = 0
    /\ frame' = frame + 1
    /\ upd' = [g |-> g', keys |-> {}, ats |-> {}]
    /\ UNCHANGED <<err, last, prev>>

Next == Cycle \/ Tick

\* ------------------------------------------------------------------ program images
Word(op) == <<op \div 256, op % 256>>

\* the single-instruction programs: every top nibble, every low byte
XSample == { x \in 0..15 : x <= MaxX \/ x = 15 }
ProgDecode == { Word(t * 4096 + x * 256 + kk) : t \in 0..15, x \in XSample, kk \in 0..255 }

InitDecode == \E data \in ProgDecode : Start(data)

SpecDecode == InitDecode /\ [][Next]_vars

\* programs that load two registers and add or subtract them: 6xaa 6ybb 8xy4/5/7
OperandSample == { b \in 0..255 : b <= MaxOperand \/ b >= 255 - MaxOperand }

ProgAddSub ==
    { Word(6 * 4096 + x * 256 + a) \o Word(6 * 4096 + y * 256 + b)
        \o Word(8 * 4096 + x * 256 + y * 16 + k) :
      x \in 0..15, y \in 0..15, a \in OperandSample, b \in OperandSample, k \in {4, 5, 7} }

\* programs that load a register with any byte and shift it: 6xvv 8x06/8x0E
ProgShift ==
    { Word(6 * 4096 + x * 256 + b) \o Word(8 * 4096 + x * 256 + k) :
      x \in 0..15, b \in 0..255, k \in {6, 14} }

InitAlu == \E data \in ProgAddSub \cup ProgShift : Start(data)

SpecAlu == InitAlu /\ [][Next]_vars

\* programs that make d nested calls (each to the next word), then call a
\* target t bytes further on, where a return 00EE sits
Calls(d) == [k \in 1..(2 * d) |->
                IF k % 2 = 1 THEN (2 * 4096 + DefaultStart + k + 1) \div 256
                ELSE (2 * 4096 + DefaultStart + k) % 256]

ProgCallReturn ==
    { Calls(d) \o Word(2 * 4096 + DefaultStart + 2 * d + 2 + t)
        \o [k \in 1..t |-> 0] \o Word(238) :
      d \in 0..MaxDepth, t \in 0..MaxGap }

\* 2200 at 0x200 calls itself until the stack is full; 00EE alone returns from nothing
ProgStack == ProgCallReturn \cup { Word(2 * 4096 + DefaultStart), Word(238) }

InitStack == \E data \in ProgStack : Start(data)

SpecStack == InitStack /\ [][Next]_vars

\* programs that draw the same sprite twice in a row: Annn 6xXX 6yYY Dxyn Dxyn,
\* on a blank display or after a background row FF drawn at (60, 0) through V2, V3
TestSprite == <<192, 129, 255>>        \* rows C0, 81, FF
Background == <<255>>
PositionSample == {0, 1, 255}

BackgroundCode(at) ==
    Word(10 * 4096 + at) \o Word(6 * 4096 + 2 * 256 + 60) \o Word(6 * 4096 + 3 * 256)
        \o Word(13 * 4096 + 2 * 256 + 3 * 16 + 1)

DrawCode(at, x, y, px, py, n) ==
    Word(10 * 4096 + at) \o Word(6 * 4096 + x * 256 + px) \o Word(6 * 4096 + y * 256 + py)
        \o Word(13 * 4096 + x * 256 + y * 16 + n) \o Word(13 * 4096 + x * 256 + y * 16 + n)
        \o Word(0)

\* the sprite data follows the code; bg is 1 when the background is drawn first
DrawProgram(bg, x, y, px, py, n) ==
    LET at == DefaultStart + 8 * bg + 12
    IN (IF bg = 1 THEN BackgroundCode(at + Len(TestSprite)) ELSE << >>)
       \o DrawCode(at, x, y, px, py, n) \o TestSprite \o Background

ProgDraw ==
    { DrawProgram(bg, x, y, px, py, n) :
      bg \in {0, 1}, x \in 0..15, y \in 0..15,
      px \in PositionSample, py \in {0, 255}, n \in 0..MaxRows }

InitDraw == \E data \in ProgDraw : Start(data)

SpecDraw == InitDraw /\ [][Next]_vars

\* programs that wait for a key: Fx0A, alone or after 6x07, then a loop that
\* never ends (a jump to itself, or 7201 and a jump back to it, which counts
\* the iterations in V2)
WaitTails(at) == { Word(1 * 4096 + at),
                   Word(7 * 4096 + 2 * 256 + 1) \o Word(1 * 4096 + at) }

ProgKeyWait ==
    { pre \o Word(15 * 4096 + x * 256 + 10) \o tail :
      <<x, pre, tail>> \in
        UNION { {x} \X {pre} \X WaitTails(DefaultStart + Len(pre) + 2) :
                <<x, pre>> \in UNION { {x} \X { << >>, Word(6 * 4096 + x * 256 + 7) } :
                                       x \in XSample } } }

InitKeyWait == \E data \in ProgKeyWait : Start(data)

SpecKeyWait == InitKeyWait /\ [][Next]_vars

\* programs that look up the glyph of a hex digit: 6x0d Fx29
ProgFont ==
    { Word(6 * 4096 + x * 256 + d) \o Word(15 * 4096 + x * 256 + 41) :
      x \in XSample, d \in 0..15 }

InitFont == \E data \in ProgFont : Start(data)

SpecFont == InitFont /\ [][Next]_vars

\* programs that draw and then clear: Annn 60XX 61YY D01n 00E0, on a blank
\* display or after the background row
ClearCode(at, px, py, n) ==
    Word(10 * 4096 + at) \o Word(6 * 4096 + px) \o Word(6 * 4096 + 256 + py)
        \o Word(13 * 4096 + 16 + n) \o Word(224) \o Word(0)

ClearProgram(bg, px, py, n) ==
    LET at == DefaultStart + 8 * bg + 12
    IN (IF bg = 1 THEN BackgroundCode(at + Len(TestSprite)) ELSE << >>)
       \o ClearCode(at, px, py, n) \o TestSprite \o Background

ProgClear ==
    { ClearProgram(bg, px, py, n) :
      bg \in {0, 1}, px \in PositionSample, py \in {0, 255}, n \in 0..MaxRows }

InitClear == \E data \in ProgClear : Start(data)

SpecClear == InitClear /\ [][Next]_vars

\* programs that load V0 and jump, call or jump indexed: 60vv 1nnn/2nnn/Bnnn,
\* to even and odd targets, inside the program, at the end of memory and past it;
\* a 6101 lies at the odd address 0x205
TargetSample == { DefaultStart + 4, DefaultStart + 5, MaxMem - 2, MaxMem - 1 }

ProgJump ==
    { Word(6 * 4096 + v) \o Word(t * 4096 + nnn) \o <<0>> \o Word(6 * 4096 + 256 + 1) :
      v \in OperandSample, t \in {1, 2, 11}, nnn \in TargetSample }

InitJump == \E data \in ProgJump : Start(data)

SpecJump == InitJump /\ [][Next]_vars

\* programs that store the decimal digits of any byte: A300 6xvv Fx33
ProgBcd ==
    { Word(10 * 4096 + 768) \o Word(6 * 4096 + x * 256 + b) \o Word(15 * 4096 + x * 256 + 51) :
      x \in XSample, b \in 0..255 }

InitBcd == \E data \in ProgBcd : Start(data)

SpecBcd == InitBcd /\ [][Next]_vars

\* programs that store or load registers: 6011 6122 6233 6F44 Annn Fx55/Fx65,
\* with I at the sixteen data bytes 1..16 that follow the code, or four bytes
\* before the end of memory
TestData == [k \in 1..16 |-> k]

StoreLoadCode(at, x, low) ==
    Word(6 * 4096 + 17) \o Word(6 * 4096 + 256 + 34) \o Word(6 * 4096 + 2 * 256 + 51)
        \o Word(6 * 4096 + 15 * 256 + 68) \o Word(10 * 4096 + at)
        \o Word(15 * 4096 + x * 256 + low) \o Word(0)

ProgStoreLoad ==
    { StoreLoadCode(at, x, low) \o TestData :
      at \in {DefaultStart + 14, MaxMem - 4}, x \in 0..15, low \in {85, 101} }

InitStoreLoad == \E data \in ProgStoreLoad : Start(data)

SpecStoreLoad == InitStoreLoad /\ [][Next]_vars

\* every program image above
Init == InitDecode \/ InitAlu \/ InitStack \/ InitDraw \/ InitKeyWait \/ InitFont \/ InitClear \/ InitJump \/ InitBcd \/ InitStoreLoad

Spec == Init /\ [][Next]_vars

\* ------------------------------------------------------------------ the instruction set
\* The instruction pattern an opcode is an instance of, by its fixed nibbles
\* (top nibble; low nibble for 5xy0, 8xy_ and 9xy0; low byte for Ex__ and Fx__;
\* the whole word for 00E0 and 00EE), named after its handler; NoHandler when
\* the opcode is an instance of no pattern.
Pattern(op) ==
    LET top == op \div 4096
        low == op % 256
        nib == op % 16
    IN CASE op = 224 -> "op_00e0"
         [] op = 238 -> "op_00ee"
         [] top = 1 -> "op_1nnn"
         [] top = 2 -> "op_2nnn"
         [] top = 3 -> "op_3xkk"
         [] top = 4 -> "op_4xkk"
         [] top = 5 /\ nib = 0 -> "op_5xy0"
         [] top = 6 -> "op_6xkk"
         [] top = 7 -> "op_7xkk"
         [] top = 8 /\ nib = 0 -> "op_8xy0"
         [] top = 8 /\ nib = 1 -> "op_8xy1"
         [] top = 8 /\ nib = 2 -> "op_8xy2"
         [] top = 8 /\ nib = 3 -> "op_8xy3"
         [] top = 8 /\ nib = 4 -> "op_8xy4"
         [] top = 8 /\ nib = 5 -> "op_8xy5"
         [] top = 8 /\ nib = 6 -> "op_8xy6"
         [] top = 8 /\ nib = 7 -> "op_8xy7"
         [] top = 8 /\ nib = 14 -> "op_8xye"
         [] top = 9 /\ nib = 0 -> "op_9xy0"
         [] top = 10 -> "op_annn"
         [] top = 11 -> "op_bnnn"
         [] top = 12 -> "op_cxkk"
         [] top = 13 -> "op_dxyn"
         [] top = 14 /\ low = 158 -> "op_ex9e"
         [] top = 14 /\ low = 161 -> "op_exa1"
         [] top = 15 /\ low = 7 -> "op_fx07"
         [] top = 15 /\ low = 10 -> "op_fx0a"
         [] top = 15 /\ low = 21 -> "op_fx15"
         [] top = 15 /\ low = 24 -> "op_fx18"
         [] top = 15 /\ low = 30 -> "op_fx1e"
         [] top = 15 /\ low = 41 -> "op_fx29"
         [] top = 15 /\ low = 51 -> "op_fx33"
         [] top = 15 /\ low = 85 -> "op_fx55"
         [] top = 15 /\ low = 101 -> "op_fx65"
         [] OTHER -> NoHandler

\* the operands a pattern's handler takes, read off the opcode by place value
Operands(h, op) ==
    LET x == (op \div 256) % 16
        y == (op \div 16) % 16
    IN CASE h \in {"op_00e0", "op_00ee"} -> << >>
         [] h \in {"op_1nnn", "op_2nnn", "op_annn", "op_bnnn"} -> <<op % 4096>>
         [] h \in {"op_3xkk", "op_4xkk", "op_6xkk", "op_7xkk", "op_cxkk"} -> <<x, op % 256>>
         [] h \in {"op_5xy0", "op_9xy0", "op_8xy0", "op_8xy1", "op_8xy2", "op_8xy3",
                   "op_8xy4", "op_8xy5", "op_8xy7"} -> <<x, y>>
         [] h = "op_dxyn" -> <<x, y, op % 16>>
         [] OTHER -> <<x>>

\* an opcode was fetched and went through the switch in the last Cycle step
Dispatched1 == last.h # "none"

\* C1: every fetched opcode that is an instance of no instruction pattern makes
\* cycles return ErrNotValidInstruction and runs no handler.
C1_UnknownOpcodeFaults ==
    (Dispatched1 /\ Pattern(last.opcode) = NoHandler)
        => (last.h = NoHandler /\ last.err = ErrNotValidInstruction)

\* C2: every opcode that is an instance of an implemented pattern is dispatched
\* to that pattern's handler, whatever its operand fields are, and the handler
\* gets x = bits 11..8, y = bits 7..4, n = bits 3..0, kk = bits 7..0, nnn = bits 11..0.
C2_PatternSelectsItsHandler ==
    (Dispatched1 /\ Pattern(last.opcode) # NoHandler)
        => (last.h = Pattern(last.opcode)
            /\ last.args = Operands(Pattern(last.opcode), last.opcode))

\* 8F17 (an 8xy7 whose low nibble also holds the bits of the 8xy6 mask) has run as op_8xy7
C2_Witness ==
    /\ last.opcode = 36631
    /\ last.h = "op_8xy7"
    /\ last.args = <<15, 1>>

\* ------------------------------------------------------------------ arithmetic
\* the handler h has just run without error; its operands and the registers before it
Ran(h) == last.h = h /\ last.err = ErrNil
ArgX == last.args[1]
ArgY == last.args[2]
Vx0 == prev.g.v[ArgX]
Vy0 == prev.g.v[ArgY]

Carry(a, b) == IF a + b > 255 THEN 1 ELSE 0
NoBorrow(a, b) == IF a >= b THEN 1 ELSE 0

\* C3 as stated: for all x, y in 0..15, after 8xy4 Vx = (Vx + Vy) mod 256 and
\* VF = 1 if Vx + Vy > 255, else 0.
C3_AddAllRegisters ==
    Ran("op_8xy4") => (g.v[ArgX] = (Vx0 + Vy0) % 256 /\ g.v[15] = Carry(Vx0, Vy0))

\* C3 amended: after 8xy4 VF is the carry of Vx + Vy for all x, y in 0..15, and
\* Vx = (Vx + Vy) mod 256 for x in 0..14; with x = 15 the flag is written last
\* and replaces the sum.
C3_Add ==
    Ran("op_8xy4") =>
        /\ g.v[15] = Carry(Vx0, Vy0)
        /\ ArgX # 15 => g.v[ArgX] = (Vx0 + Vy0) % 256

\* 8F14 has run with VF + V1 = 255 + 254: VF holds the carry 1, not the sum 253
C3_Witness ==
    /\ Ran("op_8xy4") /\ ArgX = 15 /\ ArgY = 1
    /\ Vx0 = 255 /\ Vy0 = 254
    /\ g.v[15] = 1

\* C4 as stated: for all x, y, 8xy5 leaves Vx = (Vx - Vy) mod 256, VF = 1 iff
\* Vx >= Vy; 8xy7 leaves Vx = (Vy - Vx) mod 256, VF = 1 iff Vy >= Vx.
C4_SubAllRegisters ==
    /\ Ran("op_8xy5") => (g.v[ArgX] = (Vx0 - Vy0) % 256 /\ g.v[15] = NoBorrow(Vx0, Vy0))
    /\ Ran("op_8xy7") => (g.v[ArgX] = (Vy0 - Vx0) % 256 /\ g.v[15] = NoBorrow(Vy0, Vx0))

\* C4 amended: VF = 1 iff the minuend is >= the subtrahend (0 exactly on a
\* borrow) for all x, y in 0..15, and Vx holds the difference mod 256 for
\* x in 0..14; with x = 15 the flag is written last and replaces the difference.
C4_Sub ==
    /\ Ran("op_8xy5") =>
        /\ g.v[15] = NoBorrow(Vx0, Vy0)
        /\ ArgX # 15 => g.v[ArgX] = (Vx0 - Vy0) % 256
    /\ Ran("op_8xy7") =>
        /\ g.v[15] = NoBorrow(Vy0, Vx0)
        /\ ArgX # 15 => g.v[ArgX] = (Vy0 - Vx0) % 256

\* 8237 has run with V2 = 1, V3 = 0: a borrow, V2 = 255 and VF = 0
C4_Witness ==
    /\ Ran("op_8xy7") /\ ArgX = 2 /\ ArgY = 3
    /\ Vx0 = 1 /\ Vy0 = 0
    /\ g.v[2] = 255 /\ g.v[15] = 0

Step(h) == cnt' = cnt + 1 /\ last'.h = h

C7_FullStackLeavesAllUnchanged ==
    [][ /\ (Step("op_2nnn") /\ g.sp = MaxStack) =>
            (last'.err = ErrStackIsFull /\ g' = g)
        /\ (Step("op_00ee") /\ g.sp = 0) => last'.err = ErrStackIsEmpty ]_vars

\* C7 amended: a call with SP = 48 fails with ErrStackIsFull and leaves stack,
\* SP, registers, I, memory, timers and display unchanged, but PC stays advanced
\* by 2 past the call (the increment of fetch is not undone); a return with
\* SP = 0 fails with ErrStackIsEmpty.
C7_FullStack ==
    [][ /\ (Step("op_2nnn") /\ g.sp = MaxStack) =>
            /\ last'.err = ErrStackIsFull
            /\ err' = ErrStackIsFull
            /\ g' = [g EXCEPT !.pc = g.pc + 2]
        /\ (Step("op_00ee") /\ g.sp = 0) =>
            /\ last'.err = ErrStackIsEmpty
            /\ err' = ErrStackIsEmpty ]_vars

\* the 49th call of 2200 has failed on a full stack
C7_Witness ==
    /\ last.h = "op_2nnn" /\ last.err = ErrStackIsFull
    /\ prev.g.sp = MaxStack /\ g.sp = MaxStack
    /\ g.pc = prev.g.pc + 2

\* ------------------------------------------------------------------ sprite draw
\* the logical pixels <<column, line>> of the sprite that Dxyn draws in state s:
\* bit 7 - c of row mem[I + r] at ((Vx + c) mod 64, (Vy + r) mod 32)
SpritePixels(s, x, y, n) ==
    { <<(s.v[x] + c) % DispWidth, (s.v[y] + r) % DispHeight>> :
        <<r, c>> \in { rc \in (0..(n - 1)) \X (0..7) :
                        (Get(s.mem, s.i + rc[1]) \div (2 ^ (7 - rc[2]))) % 2 = 1 } }

\* the index of the first of the four buffer bytes of a logical pixel
ByteOf(p) == 4 * (p[2] * DispWidth + p[1])
On(pixels, p) == Get(pixels, ByteOf(p)) = 255

\* buffer b is buffer a with exactly the pixels of S toggled
Toggled(a, b, S) ==
    \A k \in (DOMAIN a) \cup (DOMAIN b) \cup UNION { ByteOf(p)..(ByteOf(p) + 3) : p \in S } :
        Get(b, k) = IF <<(k \div 4) % DispWidth, k \div (4 * DispWidth)>> \in S
                    THEN 255 - Get(a, k) ELSE Get(a, k)

\* this step is the second of two consecutive identical draws at the same position:
\* same opcode, same Vx, Vy and I, same memory
SecondDraw ==
    /\ Ran("op_dxyn")
    /\ Step("op_dxyn") /\ last'.err = ErrNil
    /\ last'.opcode = last.opcode
    /\ g.v[ArgX] = prev.g.v[ArgX]
    /\ g.v[ArgY] = prev.g.v[ArgY]
    /\ g.i = prev.g.i
    /\ g.mem = prev.g.mem

\* C8: two consecutive identical draws at the same position leave the display
\* buffer as it was before the first one.
C8_DoubleDrawRestores ==
    [][ SecondDraw => g'.pixels = prev.g.pixels ]_vars

C10_DrawTogglesSpriteAtVxVy ==
    Ran("op_dxyn") =>
        LET S == SpritePixels(prev.g, ArgX, ArgY, last.args[3])
        IN /\ Toggled(prev.g.pixels, g.pixels, S)
           /\ g.v[15] = IF \E p \in S : On(prev.g.pixels, p) THEN 1 ELSE 0

\* ------------------------------------------------------------------ waiting for a key
\* the word at address a of the memory of s
WordAt(s, a) == Get(s.mem, a) * 256 + Get(s.mem, a + 1)

\* PC points at an Fx0A instruction
WaitingAt(s) == Pattern(WordAt(s, s.pc)) = "op_fx0a"

\* this step ends an Update call
TickStep == frame' = frame + 1

\* everything of the machine but PC, the timers and the key sample is as in s
SameButPc(s, t) ==
    /\ t.v = s.v /\ t.i = s.i
    /\ t.sp = s.sp /\ t.stack = s.stack
    /\ t.mem = s.mem
    /\ t.pixels = s.pixels /\ t.disp = s.disp

\* C11: an Update that begins with PC at an Fx0A and samples no key at any of
\* its iterations ends with PC where it was, registers, I, SP, stack, memory and
\* display unchanged, nothing but the Fx0A fetched, and no error returned: the
\* instruction was retried 20 times, never dropped.
C11_WaitKeepsWaiting ==
    [][ (TickStep /\ WaitingAt(upd.g) /\ upd.keys \subseteq {NoKey}) =>
            /\ g'.pc = upd.g.pc
            /\ SameButPc(upd.g, g')
            /\ cnt = PerFrame
            /\ upd.ats = {upd.g.pc}
            /\ err' = ErrNil /\ status' = "running" ]_vars

\* two Updates are over and the machine still waits at the F00A at 0x202, V0 = 7
C11_Witness ==
    /\ frame = 2 /\ cnt = 0
    /\ g.pc = DefaultStart + 2 /\ WordAt(g, g.pc) = 61450
    /\ last.h = "op_fx0a" /\ ~g.isKeyPressed
    /\ prev.last.h = "op_fx0a" /\ ~prev.g.isKeyPressed
    /\ g.v[0] = 7

\* C12 as stated: an Update that begins with PC at an Fx0A at A while key k is
\* down ends with PC = A + 2 and Vx = k.
C12_TickAdvancesByTwo ==
    [][ (TickStep /\ WaitingAt(upd.g) /\ upd.keys \cap {NoKey} = {}) =>
            /\ g'.pc = upd.g.pc + 2
            /\ \A k \in upd.keys : g'.v[(WordAt(upd.g, upd.g.pc) \div 256) % 16] = k ]_vars

\* C12 amended: the iteration that runs an Fx0A at A while key k is down leaves
\* PC = A + 2 and Vx = k, changes nothing else and returns no error, so that the
\* Update goes on with the instructions that follow.
C12_KeyEndsWait ==
    [][ (Step("op_fx0a") /\ WaitingAt(g) /\ g'.isKeyPressed) =>
            /\ last'.err = ErrNil
            /\ g'.pc = g.pc + 2
            /\ g'.pressed \in Keys \cap upd'.keys
            /\ g'.v = [g.v EXCEPT ![last'.args[1]] = g'.pressed]
            /\ g'.i = g.i /\ g'.sp = g.sp /\ g'.stack = g.stack /\ g'.mem = g.mem
            /\ g'.pixels = g.pixels /\ g'.dt = g.dt /\ g'.st = g.st
            /\ err' = ErrNil /\ status' = "running" ]_vars

\* the F00A at 0x202 was retried with no key, then run with key F down: V0 = 15, PC = 0x204
C12_Witness ==
    /\ last.h = "op_fx0a" /\ last.at = DefaultStart + 2 /\ last.args = <<0>>
    /\ prev.last.h = "op_fx0a" /\ ~prev.g.isKeyPressed
    /\ g.isKeyPressed /\ g.pressed = 15
    /\ prev.g.v[0] = 7 /\ g.v[0] = 15
    /\ g.pc = DefaultStart + 4

\* ------------------------------------------------------------------ font lookup
\* the five rows of the glyph of hex digit d, as mapFontset lays them out
Glyph(d) == [r \in 0..4 |-> fontset[5 * d + r + 1]]

\* C13: for every hex digit d in 0..15 held in Vx, Fx29 leaves I = 5 * d, so
\* that mem[I .. I+4] are the five rows of the glyph of d.
C13_FontAddress ==
    (Ran("op_fx29") /\ Vx0 \in 0..15) =>
        /\ g.i = 5 * Vx0
        /\ \A r \in 0..4 : Get(g.mem, g.i + r) = Glyph(Vx0)[r]

\* ------------------------------------------------------------------ faults
Faults == {ErrStackIsFull, ErrStackIsEmpty, ErrNotValidInstruction}

\* this step is an iteration of the loop in cycles
CycleStep == cnt' = cnt + 1

\* C14: when the k-th instruction of a batch faults, cycles returns at once:
\* what instructions 1..k-1 did stays (the faulting iteration changes nothing
\* but PC), no further instruction is fetched, Update returns that same error
\* with the machine as the fault left it, and nothing runs afterwards.
C14_FaultEndsBatch ==
    [][ /\ (CycleStep /\ last'.err \in Faults) =>
            /\ err' = last'.err
            /\ cnt' \in 1..PerFrame
            /\ SameButPc(g, g') /\ g'.dt = g.dt /\ g'.st = g.st
        /\ err \in Faults =>
            /\ TickStep
            /\ last' = last /\ prev' = prev
            /\ g'.pc = g.pc /\ SameButPc(g, g')
            /\ err' = err /\ status' = "exited"
        /\ status # "exited" ]_vars

\* 2200 has called itself 48 times over three batches; the 49th call, the 9th
\* instruction of its batch, has failed, and Update has returned the error
C14_Witness ==
    /\ status = "exited" /\ err = ErrStackIsFull
    /\ frame = 3 /\ cnt = 0
    /\ last.h = "op_2nnn" /\ last.err = ErrStackIsFull
    /\ g.sp = MaxStack /\ g.stack[MaxStack - 1] = DefaultStart + 2

\* ------------------------------------------------------------------ timers
\* the value a timer has after the end of an Update that found it at t
Ticked(t) == IF t > 0 THEN t - 1 ELSE TimerReset

\* C15: an iteration of cycles leaves both timers alone, except that Fx15 sets
\* the delay timer and Fx18 the sound timer to Vx; the end of an Update moves
\* each timer once, on its own: t - 1 if t > 0, 60 if t = 0, and changes
\* nothing else.
C15_TimersMoveAtFrameEnd ==
    [][ /\ CycleStep =>
            /\ g'.dt = IF last'.h = "op_fx15" THEN g.v[last'.args[1]] ELSE g.dt
            /\ g'.st = IF last'.h = "op_fx18" THEN g.v[last'.args[1]] ELSE g.st
        /\ TickStep =>
            g' = [g EXCEPT !.dt = Ticked(g.dt), !.st = Ticked(g.st)] ]_vars

\* F015 set the delay timer to V0 = 0; the end of the Update reset it to 60 and
\* took the sound timer from 60 to 59
C15_Witness ==
    /\ frame = 1 /\ cnt = 0
    /\ upd.ats = {} /\ WordAt(g, DefaultStart) = 61461
    /\ g.dt = TimerReset /\ g.st = TimerReset - 1

\* ------------------------------------------------------------------ clear
\* C16: after 00E0, whatever was drawn before, each of the 64 x 32 x 4 bytes of
\* the pixel buffer is 0, and registers (VF included), I, memory, SP and the
\* stack are as before.
C16_ClearBlanksDisplay ==
    Ran("op_00e0") =>
        /\ \A k \in 0..(DispWidth * DispHeight * 4 - 1) : Get(g.pixels, k) = 0
        /\ g.v = prev.g.v /\ g.i = prev.g.i /\ g.mem = prev.g.mem
        /\ g.sp = prev.g.sp /\ g.stack = prev.g.stack

\* 00E0 has cleared a display with lit pixels, after a draw that had set VF
C16_Witness ==
    /\ Ran("op_00e0") /\ last.opcode = 224
    /\ prev.last.h = "op_dxyn"
    /\ \E k \in DOMAIN prev.g.pixels : prev.g.pixels[k] = 255
    /\ g.pixels = Zeroed
    /\ prev.g.v[15] = 1 /\ g.v[15] = 1

\* ------------------------------------------------------------------ stack discipline
\* C17: SP stays within 0..48; a successful 2nnn adds 1 to it and writes the
\* entry it pushes, a successful 00EE takes 1 from it, a failing call or return
\* and every other instruction, and the end of an Update, leave SP and every
\* stack entry alone.
C17_StackDiscipline ==
    [][ /\ g.sp \in 0..MaxStack /\ g'.sp \in 0..MaxStack
        /\ IF CycleStep /\ last'.h = "op_2nnn" /\ last'.err = ErrNil
           THEN /\ g'.sp = g.sp + 1
                /\ g'.stack = [g.stack EXCEPT ![g.sp] = g.pc + 2]
           ELSE IF CycleStep /\ last'.h = "op_00ee" /\ last'.err = ErrNil
           THEN /\ g'.sp = g.sp - 1
                /\ g'.stack = g.stack
           ELSE /\ g'.sp = g.sp
                /\ g'.stack = g.stack ]_vars

\* the 48th call of 2200 has filled the stack
C17_Witness ==
    /\ Ran("op_2nnn") /\ last.opcode = 8704
    /\ prev.g.sp = MaxStack - 1 /\ g.sp = MaxStack
    /\ \A k \in 0..(MaxStack - 1) : g.stack[k] = DefaultStart + 2

\* ------------------------------------------------------------------ program counter
\* C18 as stated: PC is even in every reachable state.
C18_PcAlwaysEven == g.pc % 2 = 0

\* C18 amended: an instruction other than a jump, call or return moves PC by 2
\* (the fetch), by 4 (a skip taken) or not at all (the key wait rewound), and
\* the end of an Update leaves it alone, so PC keeps its parity; 1nnn and 2nnn
\* leave PC = nnn and Bnnn leaves PC = nnn + V0, even or odd, and 00EE leaves
\* the address the call pushed; a failing call or return leaves PC 2 further.
C18_PcParity ==
    [][ /\ (CycleStep /\ last'.h # "none") =>
            LET h == last'.h
                ok == last'.err = ErrNil
            IN  CASE h = "op_1nnn" \/ (h = "op_2nnn" /\ ok) -> g'.pc = last'.args[1]
                  [] h = "op_bnnn" -> g'.pc = (last'.args[1] + g.v[0]) % 65536
                  [] h = "op_00ee" /\ ok -> g'.pc = g.stack[g.sp - 1]
                  [] h = "op_fx0a" -> g'.pc = IF g'.isKeyPressed THEN g.pc + 2 ELSE g.pc
                  [] h \in {"op_3xkk", "op_4xkk", "op_5xy0", "op_9xy0", "op_ex9e", "op_exa1"} ->
                        g'.pc \in {g.pc + 2, g.pc + 4}
                  [] OTHER -> g'.pc = g.pc + 2
        /\ TickStep => g'.pc = g.pc ]_vars

\* B204 with V0 = 1 has left PC = 0x205, and the 6101 that lies there has run
C18_Witness ==
    /\ Ran("op_6xkk") /\ last.at = DefaultStart + 5 /\ g.v[1] = 1
    /\ prev.last.h = "op_bnnn" /\ prev.last.args = <<DefaultStart + 4>>
    /\ prev.g.v[0] = 1 /\ prev.g.pc = DefaultStart + 5
    /\ g.pc = DefaultStart + 7

\* ------------------------------------------------------------------ memory
\* C19: in every reachable state the cells 0x000..0x04F hold the 80 font bytes
\* that mapFontset wrote.
C19_FontIntact ==
    \A k \in 0..(FontSetSize - 1) : Get(g.mem, k) = fontset[k + 1]

\* the last iteration of cycles used an address outside 0..4095
OutOfRange == last.err = Panic

\* C20: an instruction that computes an address outside 0..4095 ends in a fault
\* that Update returns to its caller; the interpreter does not crash.
C20_OutOfRangeIsReturned ==
    OutOfRange => (status # "crashed" /\ err \notin {ErrNil} \cup Faults)

\* ------------------------------------------------------------------ decimal digits
\* C21: for every v = Vx in 0..255, Fx33 leaves mem[I] = v div 100,
\* mem[I+1] = (v div 10) mod 10 and mem[I+2] = v mod 10, the 8-bit product
\* 100 * 10 = 232 and the 8-bit difference in bcd notwithstanding.
C21_BcdDigits ==
    Ran("op_fx33") =>
        /\ Get(g.mem, prev.g.i) = Vx0 \div 100
        /\ Get(g.mem, prev.g.i + 1) = (Vx0 \div 10) % 10
        /\ Get(g.mem, prev.g.i + 2) = Vx0 % 10

\* F033 with V0 = 255, where 255 mod 232 - 255 mod 100 = 23 - 55 wraps to 224:
\* the digits stored at 0x300 are 2, 5, 5
C21_Witness ==
    /\ Ran("op_fx33") /\ ArgX = 0 /\ Vx0 = 255
    /\ prev.g.i = 768
    /\ (Vx0 % U8(100 * 10)) - (Vx0 % 100) < 0
    /\ Get(g.mem, 768) = 2 /\ Get(g.mem, 769) = 5 /\ Get(g.mem, 770) = 5

\* ------------------------------------------------------------------ register store and load
\* C22: Fx55 leaves mem[I + k] = Vk for k in 0..x and every other cell, every
\* register and I as they were; Fx65 leaves Vk = mem[I + k] for k in 0..x and
\* the registers above Vx, memory and I as they were.
C22_StoreLoadFrame ==
    /\ Ran("op_fx55") =>
        /\ g.i = prev.g.i /\ g.v = prev.g.v
        /\ \A k \in 0..(MaxMem - 1) :
                Get(g.mem, k) = IF k \in prev.g.i..(prev.g.i + ArgX)
                                THEN prev.g.v[k - prev.g.i]
                                ELSE Get(prev.g.mem, k)
    /\ Ran("op_fx65") =>
        /\ g.i = prev.g.i /\ g.mem = prev.g.mem
        /\ \A r \in 0..(MaxRegs - 1) :
                g.v[r] = IF r <= ArgX THEN Get(prev.g.mem, prev.g.i + r) ELSE prev.g.v[r]

\* F255 has stored V0..V2 = 11 22 33 over the data bytes 1 2 3 and left the fourth
C22_Witness ==
    /\ Ran("op_fx55") /\ ArgX = 2
    /\ g.i = DefaultStart + 14
    /\ Get(prev.g.mem, g.i) = 1 /\ Get(prev.g.mem, g.i + 2) = 3
    /\ Get(g.mem, g.i) = 17 /\ Get(g.mem, g.i + 1) = 34 /\ Get(g.mem, g.i + 2) = 51
    /\ Get(g.mem, g.i + 3) = 4

\* ------------------------------------------------------------------ pixel bytes
\* the logical pixels of which the buffer holds a non-zero byte
Touched(pixels) == { k \div 4 : k \in DOMAIN pixels }

\* C23: in every reachable state the four buffer bytes of each logical pixel
\* are equal, all 0x00 or all 0xFF, so that the first byte alone tells whether
\* the pixel is on.
C23_PixelBytesAgree ==
    \A p \in Touched(g.pixels) :
        /\ Get(g.pixels, 4 * p) \in {0, 255}
        /\ \A b \in 1..3 : Get(g.pixels, 4 * p + b) = Get(g.pixels, 4 * p)

\* D012 at (0, 0) on the background: pixel (0, 0) was turned off and its four
\* bytes are 0, pixel (7, 1) was turned on and its four bytes are FF
C23_Witness ==
    /\ Ran("op_dxyn") /\ last.args = <<0, 1, 2>>
    /\ prev.g.v[0] = 0 /\ prev.g.v[1] = 0
    /\ On(prev.g.pixels, <<0, 0>>) /\ ~On(prev.g.pixels, <<7, 1>>)
    /\ \A b \in 0..3 : Get(g.pixels, ByteOf(<<0, 0>>) + b) = 0
    /\ \A b \in 0..3 : Get(g.pixels, ByteOf(<<7, 1>>) + b) = 255

====
